---- MODULE Spec2Model ----
(***************************************************************************)
(* Model of Modules/Debug/Debug.cpp: the Debug text relay.                 *)
(*                                                                         *)
(* The build modelled is the one with DEBUG_PRINTF_ENABLED and             *)
(* USE_FREERTOS set, i.e. the one in which the buffer, the binary          *)
(* semaphore and the "Debug transmitter" task exist.                       *)
(*                                                                         *)
(* A text handed to Debug::Message is identified by the task that passes   *)
(* it and the index of the call, and is known by its length only: byte i   *)
(* of the k-th text of task t is <<t, k, i>>.  The transport (LSPC) is a   *)
(* collaborator: every TransmitAsync call is appended to the log `sent`.   *)
(***************************************************************************)
EXTENDS Integers, Sequences, FiniteSets, TLC

\* MAX_DEBUG_TEXT_LENGTH, the size of messageBuffer_ (set in Debug.h), scaled down.
Capacity == 3
\* Debug::Message calls the application tasks make, all together.
MaxCalls == 2
\* Debug::AssignDebugCOM calls the initialising task makes.
MaxBinds == 2
\* Rounds of the Debug::Error loop that are followed.
MaxErrLoops == 1
\* Debug::SetDebugPin, Pulse and Toggle calls made, all together.
MaxPinCalls == 4

\* uint16_t stringLength = strlen(msg): the length is kept modulo 2^16.
UINT16 == 65536
\* NULL semaphore handle.
NoSem == 0

\* com_ == 0
NoRef == "null"
Lspc == "lspc"

Producers == {"p1", "p2"}
Binder == "main"
Tasks == Producers \cup {Binder}
Flushers == 1..MaxBinds

\* A zeroed byte of messageBuffer_, and a byte read from beyond its end.
Zero == <<>>
Junk == <<"junk">>

\* Lengths of the texts application tasks pass to Debug::Message.
Lens == {1, 2, Capacity, 2 * Capacity + 1, UINT16 + 2}
\* The same, where the initialising task may rebind at any time.
LensAny == {1, Capacity, 2 * Capacity + 1}
\* Lengths of (type, functionName, msg) passed to Debug::Error.
ErrArgs == {<<2, 1, 2>>}

\* debugPulsePin_ == 0, and the IO objects the application has
NoPin == "nopin"
Pins == {"pinA", "pinB"}
\* The task that calls Pulse and Toggle
PinUser == "user"

VARIABLES
    com,            \* debugHandle.com_
    connected,      \* what LSPC::Connected() returns
    buffer,         \* debugHandle.messageBuffer_
    fill,           \* debugHandle.currentBufferLocation_
    overrun,        \* bytes were written beyond messageBuffer_
    mutex_,         \* debugHandle.mutex_ (a handle, NoSem when NULL)
    nsem,           \* binary semaphores created so far (handles 1..nsem)
    avail,          \* the semaphores that can be taken
    nflush,         \* "Debug transmitter" tasks created so far
    fpc,            \* position of each transmitter task
    fwait,          \* the semaphore a transmitter task blocks on
    pc,             \* position of each application task
    wait,           \* the semaphore an application task blocks on
    calls,          \* lengths of the texts each task has passed to Message
    stringLength,   \* Message's local stringLength
    msgPtr,         \* Message's local msgPtr, as an offset into msg
    errArgs,        \* arguments of the Debug::Error a task is in (<<>>: none)
    errIdx,         \* which of the six Message calls of the tagged form is next
    errLoops,       \* completed rounds of the Error loop
    nbinds,         \* AssignDebugCOM calls made
    sent,           \* log of TransmitAsync calls
    txOk,           \* what the last TransmitAsync call returned
    halted,         \* the system stopped in a failed configASSERT / fault
    epoch,          \* texts copied into the buffer since it was last empty
    epochSent,      \* Len(sent) when the buffer was last empty
    pre,            \* per task: buffer state when it last acquired the semaphore
    debugPulsePin_, \* debugHandle.debugPulsePin_
    pinLog,         \* log of the IO operations made on pins
    pinCalls,       \* log of the SetDebugPin, Pulse and Toggle calls made
    ppc,            \* position of the task that calls Pulse and Toggle
    tagArgs,        \* (type, functionName, msg) given to the tagged Message
    tagLog          \* per tagged overload: the Message(const char*) calls it made

pinVars == <<debugPulsePin_, pinLog, pinCalls, ppc>>
tagVars == <<tagArgs, tagLog>>
apiVars == <<pinVars, tagVars>>

vars == <<com, connected, buffer, fill, overrun, mutex_, nsem, avail, nflush,
          fpc, fwait, pc, wait, calls, stringLength, msgPtr, errArgs, errIdx,
          errLoops, nbinds, apiVars, sent, txOk, halted, epoch, epochSent, pre>>

\* everything but the pin and the tagged calls
relayVars == <<com, connected, buffer, fill, overrun, mutex_, nsem, avail,
               nflush, fpc, fwait, pc, wait, calls, stringLength, msgPtr,
               errArgs, errIdx, errLoops, nbinds, sent, txOk, halted, epoch,
               epochSent, pre>>

chanVars == <<com, connected>>
bufVars == <<buffer, fill, overrun>>
semVars == <<mutex_, nsem, avail>>
flushVars == <<nflush, fpc, fwait>>
errVars == <<errArgs, errLoops>>
ghostVars == <<epoch, epochSent>>

NoPre == [fill |-> 0, buf |-> <<>>, nsent |-> 0]

----------------------------------------------------------------------------
(* Faulty variants of the code, which the properties below must tell apart *)
(* from the code                                                            *)

\* the room-left test off by one: a text that exactly fills the buffer
\* forces a flush
MustFlushOffByOne(len, f) == len >= Capacity - f

\* memcpy to the start of the buffer instead of the fill position
MemCpyAtStart(buf, at, t, k, n) ==
    [i \in 1..Capacity |-> IF i <= n THEN <<t, k, i>> ELSE buf[i]]

\* Message without the Connected() test
RefusedUnboundOnly == com = NoRef

\* a transmitter task that leaves a single buffered byte where it is
FlushNeededAboveOne(f) == f > 1

----------------------------------------------------------------------------
(* Pure helpers of Debug::Message *)

\* uint16_t stringLength = strlen(msg);
StringLength(n) == n % UINT16

\* if (stringLength > MAX_DEBUG_TEXT_LENGTH)
IsTooLong(len) == len > Capacity

\* sendLength = stringLength; if (sendLength > MAX) sendLength = MAX;
SendLength(len) == IF len > Capacity THEN Capacity ELSE len

\* if (stringLength > (MAX_DEBUG_TEXT_LENGTH - currentBufferLocation_))
MustFlush(len, f) == len > Capacity - f

\* the bytes msgPtr[0 .. n) of the k-th text of task t, msgPtr at offset from
TextBytes(t, k, from, n) == [i \in 1..n |-> <<t, k, from + i>>]

\* the bytes messageBuffer_[0 .. n) as TransmitAsync reads them
Payload(buf, n) == [i \in 1..n |-> IF i <= Capacity THEN buf[i] ELSE Junk]

\* memcpy(&messageBuffer_[at], msg, n)
MemCpy(buf, at, t, k, n) ==
    [i \in 1..Capacity |->
        IF i > at /\ i <= at + n THEN <<t, k, i - at>> ELSE buf[i]]

\* currentBufferLocation_ += stringLength
Advance(f, n) == f + n

\* Faulty variant: the buffered bytes are kept when TransmitAsync fails
ResetIfSent(ok, f) == IF ok THEN 0 ELSE f

\* TransmitAsync(...); currentBufferLocation_ = 0; whatever the call returned
ResetAfter(ok, f) == 0

\* memset(messageBuffer_, 0, MAX_DEBUG_TEXT_LENGTH)
MemSetZero == [i \in 1..Capacity |-> Zero]

\* one TransmitAsync(Debug, ptr, length) call, as the transport sees it
TxRecord(by, src, data) == [by |-> by, src |-> src, data |-> data]

\* the text of task t's current Message call
CurCall(t) == Len(calls[t])
CurLen(t) == calls[t][Len(calls[t])]

\* The six texts of Message(type, functionName, msg)
ErrPart(a, i) ==
    CASE i = 1 -> a[1]
      [] i = 2 -> 1
      [] i = 3 -> a[2]
      [] i = 4 -> 2
      [] i = 5 -> a[3]
      [] OTHER -> 1

InError(t) == errArgs[t] # <<>>

\* Where a task continues when Message(const char*) returns.
AfterMessage(t) ==
    IF InError(t)
    THEN IF errIdx[t] < 6 THEN "e_call" ELSE "e_delay"
    ELSE "idle"

NextIdx(t) == IF InError(t) /\ errIdx[t] < 6 THEN errIdx[t] + 1 ELSE errIdx[t]

----------------------------------------------------------------------------
InitRelay ==
    /\ com = NoRef
    /\ connected = FALSE
    /\ buffer = MemSetZero
    /\ fill = 0
    /\ overrun = FALSE
    /\ mutex_ = NoSem
    /\ nsem = 0
    /\ avail = {}
    /\ nflush = 0
    /\ fpc = [f \in Flushers |-> "none"]
    /\ fwait = [f \in Flushers |-> NoSem]
    /\ pc = [t \in Tasks |-> "idle"]
    /\ wait = [t \in Tasks |-> NoSem]
    /\ calls = [t \in Tasks |-> <<>>]
    /\ stringLength = [t \in Tasks |-> 0]
    /\ msgPtr = [t \in Tasks |-> 0]
    /\ errArgs = [t \in Tasks |-> <<>>]
    /\ errIdx = [t \in Tasks |-> 0]
    /\ errLoops = [t \in Tasks |-> 0]
    /\ nbinds = 0
    /\ sent = <<>>
    /\ txOk = TRUE
    /\ halted = FALSE
    /\ epoch = <<>>
    /\ epochSent = 0
    /\ pre = [t \in Tasks |-> NoPre]

\* Debug::Debug() : com_(0), debugPulsePin_(0)
InitPin ==
    /\ debugPulsePin_ = NoPin
    /\ pinLog = <<>>
    /\ pinCalls = <<>>
    /\ ppc = "idle"

\* no tagged Message call is being looked at
InitTag ==
    /\ tagArgs = <<>>
    /\ tagLog = [v \in {"cstr", "string"} |-> <<>>]

Init == InitRelay /\ InitPin /\ InitTag

----------------------------------------------------------------------------
(* The channel's connection state, which the module only reads *)

Connect ==
    /\ ~halted
    /\ ~connected
    /\ connected' = TRUE
    /\ UNCHANGED <<com, bufVars, semVars, flushVars, pc, wait, calls,
                   stringLength, msgPtr, errVars, errIdx, nbinds, apiVars, sent, txOk, halted,
                   ghostVars, pre>>

Disconnect ==
    /\ ~halted
    /\ connected
    /\ connected' = FALSE
    /\ UNCHANGED <<com, bufVars, semVars, flushVars, pc, wait, calls,
                   stringLength, msgPtr, errVars, errIdx, nbinds, apiVars, sent, txOk, halted,
                   ghostVars, pre>>

----------------------------------------------------------------------------
(* Debug::Message(const char * msg) *)

\* if (!com_) return;  if (!com_->Connected()) return;
Refused == com = NoRef \/ ~connected

\* Task t enters Message with a text of length n (lines 96-100): the call
\* returns at once without a bound, connected channel.
MessageCall(t, n) ==
    /\ ~halted
    /\ calls' = [calls EXCEPT ![t] = Append(@, n)]
    /\ IF Refused
       THEN /\ pc' = [pc EXCEPT ![t] = AfterMessage(t)]
            /\ errIdx' = [errIdx EXCEPT ![t] = NextIdx(t)]
       ELSE /\ pc' = [pc EXCEPT ![t] = "take"]
            /\ UNCHANGED errIdx
    /\ UNCHANGED <<chanVars, bufVars, semVars, flushVars, wait, stringLength,
                   msgPtr, errVars, nbinds, apiVars, sent, txOk, halted, ghostVars, pre>>

\* The Message calls application tasks have made so far.
CallIds == UNION {{<<t, k>> : k \in 1..Len(calls[t])} : t \in Producers}

\* An application task calls Message with a text of length n.
Call(t, n) ==
    /\ pc[t] = "idle"
    /\ Cardinality(CallIds) < MaxCalls
    /\ MessageCall(t, n)

\* What a task records when xSemaphoreTake returns to it.
Snapshot == [fill |-> fill, buf |-> Payload(buffer, fill), nsent |-> Len(sent)]

\* xSemaphoreTake(mutex_, portMAX_DELAY): the handle is read at the call.  A
\* NULL handle fails configASSERT(pxQueue), which stops the system; a build
\* without the assertion dereferences NULL, after which nothing is defined.
\* Either way the run is not followed further: halted.
MessageTake(t) ==
    /\ ~halted
    /\ pc[t] = "take"
    /\ \/ /\ mutex_ = NoSem
          /\ halted' = TRUE
          /\ UNCHANGED <<pc, pre, avail, wait>>
       \/ /\ mutex_ # NoSem
          /\ mutex_ \in avail
          /\ avail' = avail \ {mutex_}
          /\ pc' = [pc EXCEPT ![t] = "locked"]
          /\ pre' = [pre EXCEPT ![t] = Snapshot]
          /\ UNCHANGED <<wait, halted>>
       \/ /\ mutex_ # NoSem
          /\ mutex_ \notin avail
          /\ wait' = [wait EXCEPT ![t] = mutex_]
          /\ pc' = [pc EXCEPT ![t] = "wait"]
          /\ UNCHANGED <<avail, pre, halted>>
    /\ UNCHANGED <<chanVars, bufVars, mutex_, nsem, flushVars, calls,
                   stringLength, msgPtr, errVars, errIdx, nbinds, apiVars, sent, txOk,
                   ghostVars>>

\* A task blocked in xSemaphoreTake gets the semaphore it blocks on.
MessageWake(t) ==
    /\ ~halted
    /\ pc[t] = "wait"
    /\ wait[t] \in avail
    /\ avail' = avail \ {wait[t]}
    /\ wait' = [wait EXCEPT ![t] = NoSem]
    /\ pc' = [pc EXCEPT ![t] = "locked"]
    /\ pre' = [pre EXCEPT ![t] = Snapshot]
    /\ UNCHANGED <<chanVars, bufVars, mutex_, nsem, flushVars, calls,
                   stringLength, msgPtr, errVars, errIdx, nbinds, apiVars, sent, txOk, halted,
                   ghostVars>>

\* xSemaphoreGive(mutex_), the handle read again at this point, and the return
\* from Message.  Giving a semaphore that is already available changes
\* nothing; a NULL handle stops the run as in xSemaphoreTake.
Release(t) ==
    /\ \/ /\ mutex_ = NoSem
          /\ halted' = TRUE
          /\ UNCHANGED avail
       \/ /\ mutex_ # NoSem
          /\ avail' = avail \cup {mutex_}
          /\ UNCHANGED halted
    /\ pc' = [pc EXCEPT ![t] = AfterMessage(t)]
    /\ errIdx' = [errIdx EXCEPT ![t] = NextIdx(t)]
    /\ pre' = [pre EXCEPT ![t] = NoPre]

\* stringLength = strlen(msg); too long for one package: send the buffered
\* package now and clear the buffer (lines 106-112).
MessageLong(t) ==
    /\ ~halted
    /\ pc[t] = "locked"
    /\ IsTooLong(StringLength(CurLen(t)))
    /\ stringLength' = [stringLength EXCEPT ![t] = StringLength(CurLen(t))]
    /\ \E ok \in BOOLEAN :
          /\ txOk' = ok
          /\ sent' = Append(sent, TxRecord(t, "buffer", Payload(buffer, fill)))
          /\ fill' = ResetAfter(ok, fill)
    /\ msgPtr' = [msgPtr EXCEPT ![t] = 0]
    /\ pc' = [pc EXCEPT ![t] = "chunk"]
    /\ UNCHANGED <<chanVars, buffer, overrun, semVars, flushVars, wait, calls,
                   errVars, errIdx, nbinds, apiVars, halted, ghostVars, pre>>

\* One round of the while loop that splits the text (lines 113-119); after
\* the last round the semaphore is given back (line 131).
MessageChunk(t) ==
    /\ ~halted
    /\ pc[t] = "chunk"
    /\ stringLength[t] > 0
    /\ LET sendLength == SendLength(stringLength[t])
           left == stringLength[t] - sendLength
       IN  /\ txOk' \in BOOLEAN
           /\ sent' = Append(sent, TxRecord(t, "text",
                         TextBytes(t, CurCall(t), msgPtr[t], sendLength)))
           /\ msgPtr' = [msgPtr EXCEPT ![t] = @ + sendLength]
           /\ stringLength' = [stringLength EXCEPT ![t] = left]
           /\ IF left > 0
              THEN UNCHANGED <<pc, errIdx, pre, avail, halted, ghostVars>>
              ELSE /\ Release(t)
                   /\ epoch' = IF fill = 0 THEN <<>> ELSE epoch
                   /\ epochSent' = IF fill = 0 THEN Len(sent') ELSE epochSent
    /\ UNCHANGED <<chanVars, bufVars, mutex_, nsem, flushVars, wait, calls,
                   errVars, nbinds, apiVars>>

\* The text fits in one package: send the buffered package first when the
\* text does not fit behind it (lines 121-125).
MessageFit(t) ==
    /\ ~halted
    /\ pc[t] = "locked"
    /\ ~IsTooLong(StringLength(CurLen(t)))
    /\ stringLength' = [stringLength EXCEPT ![t] = StringLength(CurLen(t))]
    /\ IF MustFlush(StringLength(CurLen(t)), fill)
       THEN /\ \E ok \in BOOLEAN :
                  /\ txOk' = ok
                  /\ sent' = Append(sent, TxRecord(t, "buffer", Payload(buffer, fill)))
                  /\ fill' = ResetAfter(ok, fill)
            /\ epoch' = <<>>
            /\ epochSent' = Len(sent')
       ELSE UNCHANGED <<sent, txOk, fill, ghostVars>>
    /\ pc' = [pc EXCEPT ![t] = "copy"]
    /\ UNCHANGED <<chanVars, buffer, overrun, semVars, flushVars, wait, calls,
                   msgPtr, errVars, errIdx, nbinds, apiVars, halted, pre>>

\* memcpy(&messageBuffer_[currentBufferLocation_], msg, stringLength);
\* currentBufferLocation_ += stringLength; and the semaphore is given back
\* (lines 127-131).
MessageCopy(t) ==
    /\ ~halted
    /\ pc[t] = "copy"
    /\ buffer' = MemCpy(buffer, fill, t, CurCall(t), stringLength[t])
    /\ overrun' = (overrun \/ fill + stringLength[t] > Capacity)
    /\ fill' = Advance(fill, stringLength[t])
    /\ epoch' = Append(epoch, <<t, CurCall(t)>>)
    /\ Release(t)
    /\ UNCHANGED <<chanVars, mutex_, nsem, flushVars, wait, calls, stringLength,
                   msgPtr, errVars, nbinds, apiVars, sent, txOk, epochSent>>

----------------------------------------------------------------------------
(* Debug::PackageGeneratorThread, the "Debug transmitter" task *)

\* osDelay(1); xSemaphoreTake(debug->mutex_, portMAX_DELAY);
FlushTake(f) ==
    /\ ~halted
    /\ fpc[f] = "sleep"
    /\ \/ /\ mutex_ = NoSem
          /\ halted' = TRUE
          /\ UNCHANGED <<fpc, avail, fwait>>
       \/ /\ mutex_ # NoSem
          /\ mutex_ \in avail
          /\ avail' = avail \ {mutex_}
          /\ fpc' = [fpc EXCEPT ![f] = "locked"]
          /\ UNCHANGED <<fwait, halted>>
       \/ /\ mutex_ # NoSem
          /\ mutex_ \notin avail
          /\ fwait' = [fwait EXCEPT ![f] = mutex_]
          /\ fpc' = [fpc EXCEPT ![f] = "wait"]
          /\ UNCHANGED <<avail, halted>>
    /\ UNCHANGED <<chanVars, bufVars, mutex_, nsem, nflush, pc, wait, calls,
                   stringLength, msgPtr, errVars, errIdx, nbinds, apiVars, sent, txOk,
                   ghostVars, pre>>

\* The transmitter task, blocked in xSemaphoreTake, gets the semaphore.
FlushWake(f) ==
    /\ ~halted
    /\ fpc[f] = "wait"
    /\ fwait[f] \in avail
    /\ avail' = avail \ {fwait[f]}
    /\ fwait' = [fwait EXCEPT ![f] = NoSem]
    /\ fpc' = [fpc EXCEPT ![f] = "locked"]
    /\ UNCHANGED <<chanVars, bufVars, mutex_, nsem, nflush, pc, wait, calls,
                   stringLength, msgPtr, errVars, errIdx, nbinds, apiVars, sent, txOk, halted,
                   ghostVars, pre>>

\* if (currentBufferLocation_ > 0)
FlushNeeded(f) == f > 0

\* if (currentBufferLocation_ > 0) { TransmitAsync(buffer, fill); fill = 0; }
\* xSemaphoreGive(debug->mutex_); and the loop sleeps again (lines 86-90).
FlushBody(f) ==
    /\ ~halted
    /\ fpc[f] = "locked"
    /\ IF FlushNeeded(fill)
       THEN /\ \E ok \in BOOLEAN :
                  /\ txOk' = ok
                  /\ sent' = Append(sent, TxRecord("flush", "buffer", Payload(buffer, fill)))
                  /\ fill' = ResetAfter(ok, fill)
            /\ epoch' = <<>>
            /\ epochSent' = Len(sent')
       ELSE UNCHANGED <<sent, txOk, fill, ghostVars>>
    /\ \/ /\ mutex_ = NoSem
          /\ halted' = TRUE
          /\ UNCHANGED avail
       \/ /\ mutex_ # NoSem
          /\ avail' = avail \cup {mutex_}
          /\ UNCHANGED halted
    /\ fpc' = [fpc EXCEPT ![f] = "sleep"]
    /\ UNCHANGED <<chanVars, buffer, overrun, mutex_, nsem, nflush, fwait, pc,
                   wait, calls, stringLength, msgPtr, errVars, errIdx, nbinds, apiVars,
                   pre>>

----------------------------------------------------------------------------
(* Debug::Error(type, functionName, msg) *)

\* Error executes BKPT and then loops over Message(type, functionName, msg)
\* and osDelay(500); a task is in Error from the step that sets errArgs.

\* The next Message(const char*) call of Message(type, functionName, msg).
ErrorCall(t) ==
    /\ pc[t] = "e_call"
    /\ errLoops[t] < MaxErrLoops
    /\ MessageCall(t, ErrPart(errArgs[t], errIdx[t]))

\* osDelay(500); and round the loop again
ErrorDelay(t) ==
    /\ ~halted
    /\ pc[t] = "e_delay"
    /\ errLoops' = [errLoops EXCEPT ![t] = @ + 1]
    /\ errIdx' = [errIdx EXCEPT ![t] = 1]
    /\ pc' = [pc EXCEPT ![t] = "e_call"]
    /\ UNCHANGED <<chanVars, bufVars, semVars, flushVars, wait, calls,
                   stringLength, msgPtr, errArgs, nbinds, apiVars, sent, txOk, halted,
                   ghostVars, pre>>

----------------------------------------------------------------------------
(* Debug::AssignDebugCOM(void * com), called by the initialising task *)

\* ERROR(msg), the macro of Debug.h: the calling task enters
\* Debug::Error(type, functionName, msg), with arguments of the lengths a.
ERROR(a) ==
    /\ errArgs' = [errArgs EXCEPT ![Binder] = a]
    /\ errIdx' = [errIdx EXCEPT ![Binder] = 1]
    /\ pc' = [pc EXCEPT ![Binder] = "e_call"]

\* com_ = com; if (!com) { ERROR("LSPC object does not exist"); return; }
\* currentBufferLocation_ = 0; memset(messageBuffer_, 0, MAX_DEBUG_TEXT_LENGTH);
\* ERROR(...) is Debug::Error with the arguments a (lines 50-61).
AssignDebugCOM(c, a) ==
    /\ ~halted
    /\ pc[Binder] = "idle"
    /\ nbinds < MaxBinds
    /\ nbinds' = nbinds + 1
    /\ com' = c
    /\ IF c = NoRef
       THEN /\ ERROR(a)
            /\ UNCHANGED <<fill, buffer, ghostVars>>
       ELSE /\ fill' = 0
            /\ buffer' = MemSetZero
            /\ epoch' = <<>>
            /\ epochSent' = Len(sent)
            /\ pc' = [pc EXCEPT ![Binder] = "create"]
            /\ UNCHANGED <<errArgs, errIdx>>
    /\ UNCHANGED <<connected, overrun, semVars, flushVars, wait, calls,
                   stringLength, msgPtr, errLoops, sent, txOk, halted, pre,
                   apiVars>>

\* Faulty variant: the transmitter task is created before the handle is
\* tested, so it exists although the semaphore does not.
AssignCreateTaskFirst(ok, a) ==
    /\ ~halted
    /\ pc[Binder] = "create"
    /\ nflush' = nflush + 1
    /\ fpc' = [fpc EXCEPT ![nflush + 1] = "sleep"]
    /\ IF ok
       THEN /\ nsem' = nsem + 1
            /\ mutex_' = nsem + 1
            /\ avail' = avail \cup {nsem + 1}
            /\ pc' = [pc EXCEPT ![Binder] = "idle"]
            /\ UNCHANGED <<errArgs, errIdx>>
       ELSE /\ mutex_' = NoSem
            /\ ERROR(a)
            /\ UNCHANGED <<nsem, avail>>
    /\ UNCHANGED <<chanVars, bufVars, fwait, wait, calls, stringLength, msgPtr,
                   errLoops, nbinds, apiVars, sent, txOk, halted, ghostVars, pre>>

\* mutex_ = xSemaphoreCreateBinary(); if (mutex_ == NULL) { ERROR(...); return; }
\* xSemaphoreGive(mutex_); xTaskCreate(PackageGeneratorThread, ...);
\* ok: the allocation of the semaphore succeeds (lines 63-71).
AssignCreate(ok, a) ==
    /\ ~halted
    /\ pc[Binder] = "create"
    /\ IF ok
       THEN /\ nsem' = nsem + 1
            /\ mutex_' = nsem + 1
            /\ avail' = avail \cup {nsem + 1}
            /\ nflush' = nflush + 1
            /\ fpc' = [fpc EXCEPT ![nflush + 1] = "sleep"]
            /\ pc' = [pc EXCEPT ![Binder] = "idle"]
            /\ UNCHANGED <<errArgs, errIdx>>
       ELSE /\ mutex_' = NoSem
            /\ ERROR(a)
            /\ UNCHANGED <<nsem, avail, nflush, fpc>>
    /\ UNCHANGED <<chanVars, bufVars, fwait, wait, calls, stringLength, msgPtr,
                   errLoops, nbinds, apiVars, sent, txOk, halted, ghostVars, pre>>

----------------------------------------------------------------------------
(* Debug::SetDebugPin, Debug::Pulse, Debug::Toggle *)

\* Faulty variant: SetDebugPin without the test of line 220
PinOverwritten(cur, pin) == pin

\* if (debugPulsePin_) return; debugPulsePin_ = pin;
PinAfterSet(cur, pin) == IF cur # NoPin THEN cur ELSE pin

\* one operation of the IO object pin
PinOp(pin, op) == <<pin, op>>

\* Debug::SetDebugPin(pin), from any task
SetDebugPin(pin) ==
    /\ Len(pinCalls) < MaxPinCalls
    /\ pinCalls' = Append(pinCalls, <<"set", pin>>)
    /\ debugPulsePin_' = PinAfterSet(debugPulsePin_, pin)
    /\ UNCHANGED <<pinLog, ppc, relayVars, tagVars>>

\* Debug::Pulse() up to osDelay(50): return without a pin, else High()
PulseHigh ==
    /\ ppc = "idle"
    /\ Len(pinCalls) < MaxPinCalls
    /\ pinCalls' = Append(pinCalls, <<"pulse", debugPulsePin_>>)
    /\ IF debugPulsePin_ = NoPin
       THEN UNCHANGED <<pinLog, ppc>>
       ELSE /\ pinLog' = Append(pinLog, PinOp(debugPulsePin_, "High"))
            /\ ppc' = "delay"
    /\ UNCHANGED <<debugPulsePin_, relayVars, tagVars>>

\* Debug::Pulse() after osDelay(50): Low()
PulseLow ==
    /\ ppc = "delay"
    /\ pinLog' = Append(pinLog, PinOp(debugPulsePin_, "Low"))
    /\ ppc' = "idle"
    /\ UNCHANGED <<debugPulsePin_, pinCalls, relayVars, tagVars>>

\* Debug::Toggle()
Toggle ==
    /\ ppc = "idle"
    /\ Len(pinCalls) < MaxPinCalls
    /\ pinCalls' = Append(pinCalls, <<"toggle", debugPulsePin_>>)
    /\ IF debugPulsePin_ = NoPin
       THEN UNCHANGED pinLog
       ELSE pinLog' = Append(pinLog, PinOp(debugPulsePin_, "Toggle"))
    /\ UNCHANGED <<debugPulsePin_, ppc, relayVars, tagVars>>

NextPin ==
    \/ \E pin \in Pins \cup {NoPin} : SetDebugPin(pin)
    \/ PulseHigh
    \/ PulseLow
    \/ Toggle

SpecPin == Init /\ [][NextPin]_vars

----------------------------------------------------------------------------
(* The tagged overloads Debug::Message(type, functionName, msg) *)

\* A C string is an array of characters ending with NUL; a std::string is
\* its size and its characters.
NUL == "NUL"
CStrings == {<<NUL>>, <<"a", NUL>>, <<"b", NUL>>, <<"a", "b", NUL>>}

\* strlen(c)
StrLen(c) == CHOOSE n \in 0..(Len(c) - 1) :
                 c[n + 1] = NUL /\ \A i \in 1..n : c[i] # NUL

\* std::string(const char *), the conversion made at the call
StdString(c) == [size |-> StrLen(c), data |-> SubSeq(c, 1, StrLen(c))]

\* std::string::c_str()
CStr(str) == str.data \o <<NUL>>

\* the literals "[", "] " and "\n"
Open == <<"[", NUL>>
Close == <<"]", " ", NUL>>
NewLine == <<"LF", NUL>>

\* what Message(const char * msg) is given: the characters up to NUL
Given(c) == SubSeq(c, 1, StrLen(c))

\* Message(const char * type, const char * functionName, const char * msg)
MessageTagged(type, functionName, msg) ==
    <<Given(type), Given(Open), Given(functionName), Given(Close), Given(msg),
      Given(NewLine)>>

\* Message(std::string type, const char * functionName, std::string msg)
MessageTaggedString(type, functionName, msg) ==
    <<Given(Open), Given(functionName), Given(Close), Given(CStr(msg)),
      Given(NewLine)>>

\* A task calls the C string overload.  No channel is bound, so each of its
\* Message(const char*) calls returns at line 99 and is only logged.
TaggedCall ==
    /\ tagArgs # <<>>
    /\ Refused
    /\ tagLog["cstr"] = <<>>
    /\ tagLog' = [tagLog EXCEPT
                    !["cstr"] = MessageTagged(tagArgs[1], tagArgs[2], tagArgs[3])]
    /\ UNCHANGED <<tagArgs, relayVars, pinVars>>

\* A task calls the std::string overload with the same arguments.
TaggedStringCall ==
    /\ tagArgs # <<>>
    /\ Refused
    /\ tagLog["string"] = <<>>
    /\ tagLog' = [tagLog EXCEPT
                    !["string"] = MessageTaggedString(StdString(tagArgs[1]),
                                     tagArgs[2], StdString(tagArgs[3]))]
    /\ UNCHANGED <<tagArgs, relayVars, pinVars>>

\* The arguments are any three C strings.
InitTagged ==
    /\ InitRelay
    /\ InitPin
    /\ tagArgs \in CStrings \X CStrings \X CStrings
    /\ tagLog = [v \in {"cstr", "string"} |-> <<>>]

NextTagged ==
    \/ TaggedCall
    \/ TaggedStringCall

SpecTagged == InitTagged /\ [][NextTagged]_vars

----------------------------------------------------------------------------
(* The whole program: any task at any time *)

MessageStep(t) ==
    \/ MessageTake(t)
    \/ MessageWake(t)
    \/ MessageLong(t)
    \/ MessageChunk(t)
    \/ MessageFit(t)
    \/ MessageCopy(t)

FlushStep(f) ==
    \/ FlushTake(f)
    \/ FlushWake(f)
    \/ FlushBody(f)

ErrorStep(t) ==
    \/ ErrorCall(t)
    \/ ErrorDelay(t)

Next ==
    \/ Connect
    \/ Disconnect
    \/ \E c \in {NoRef, Lspc}, a \in ErrArgs : AssignDebugCOM(c, a)
    \/ \E ok \in BOOLEAN, a \in ErrArgs : AssignCreate(ok, a)
    \/ \E t \in Producers, n \in LensAny : Call(t, n)
    \/ \E t \in Tasks : MessageStep(t)
    \/ \E t \in Tasks : ErrorStep(t)
    \/ \E f \in Flushers : FlushStep(f)

Spec == Init /\ [][Next]_vars

----------------------------------------------------------------------------
(* The program as it is meant to be used: the initialising task binds one  *)
(* channel, the semaphore is created, and only then do application tasks   *)
(* print.                                                                  *)

Bound == nflush = 1 /\ pc[Binder] = "idle"

NextOnce ==
    \/ Connect
    \/ Disconnect
    \/ nbinds = 0 /\ \E a \in ErrArgs : AssignDebugCOM(Lspc, a)
    \/ \E a \in ErrArgs : AssignCreate(TRUE, a)
    \/ (nbinds = 0 \/ Bound) /\ \E t \in Producers, n \in Lens : Call(t, n)
    \/ \E t \in Producers : MessageStep(t)
    \/ \E f \in Flushers : FlushStep(f)

SpecOnce == Init /\ [][NextOnce]_vars

\* The scheduler lets a runnable task run: a task inside Message and the
\* transmitter task take their next step when it stays possible.
FairSpecOnce ==
    /\ SpecOnce
    /\ \A t \in Producers : WF_vars(MessageStep(t))
    /\ \A f \in Flushers : WF_vars(FlushStep(f))

\* AssignDebugCOM is called once, with any reference and any outcome of the
\* allocation of the semaphore.
NextFirst ==
    \/ Connect
    \/ Disconnect
    \/ nbinds = 0 /\ \E c \in {NoRef, Lspc}, a \in ErrArgs : AssignDebugCOM(c, a)
    \/ \E ok \in BOOLEAN, a \in ErrArgs : AssignCreate(ok, a)
    \/ \E t \in Producers, n \in LensAny : Call(t, n)
    \/ \E t \in Tasks : MessageStep(t)
    \/ \E t \in Tasks : ErrorStep(t)
    \/ \E f \in Flushers : FlushStep(f)

SpecFirst == Init /\ [][NextFirst]_vars

----------------------------------------------------------------------------
(* What the transport has seen, and what is still buffered *)

RECURSIVE Flat(_)
Flat(log) == IF log = <<>> THEN <<>> ELSE log[1].data \o Flat(Tail(log))

\* All bytes handed to TransmitAsync, in order, then the buffered bytes.
Stream == Flat(sent) \o Payload(buffer, fill)

\* The length of the text a byte belongs to, as its caller passed it.
TextLen(t, k) == calls[t][k]

\* s is a concatenation of whole texts.
RECURSIVE Whole(_)
Whole(s) ==
    \/ s = <<>>
    \/ /\ Len(s[1]) = 3
       /\ s[1][3] = 1
       /\ LET t == s[1][1]
              k == s[1][2]
              n == TextLen(t, k)
          IN  /\ Len(s) >= n
              /\ \A i \in 1..n : s[i] = <<t, k, i>>
              /\ Whole(SubSeq(s, n + 1, Len(s)))

\* The first bytes of the texts in s, in order.
Starts(s) == SelectSeq(s, LAMBDA b : Len(b) = 3 /\ b[3] = 1)

\* Each task's texts appear in the order of its calls.
InCallOrder(s) ==
    LET st == Starts(s)
    IN  \A i, j \in 1..Len(st) :
            (i < j /\ st[i][1] = st[j][1]) => st[i][2] < st[j][2]

\* No Message call has sent part of its text and not yet the rest.
NoneSplitting == \A t \in Tasks : pc[t] # "chunk"

(* C1: with one bound channel, whatever the interleaving of producers and   *)
(* the transmitter task, the bytes transmitted so far followed by the       *)
(* buffered bytes are a concatenation of whole Message texts, each task's   *)
(* texts in the order of its calls.                                         *)
C1_MessageGranularity ==
    NoneSplitting => (Whole(Stream) /\ InCallOrder(Stream))

----------------------------------------------------------------------------
(* One Message call, seen at the step in which it returns *)

\* Task t returns from a Message call that got the semaphore.
Returns(t) == pc[t] \in {"chunk", "copy"} /\ pc'[t] \notin {"chunk", "copy"}

\* The TransmitAsync calls made since task t got the semaphore.
MadeBy(t, log) == SubSeq(log, pre[t].nsent + 1, Len(log))

\* Of those, the ones that send the text itself.
ChunksBy(t, log) == SelectSeq(MadeBy(t, log), LAMBDA r : r.src = "text")

\* ceil(n / Capacity)
CeilDiv(n) == (n + Capacity - 1) \div Capacity

\* The chunks of a text of length n, as the claim describes them.
ChunksAsSpecified(t, k, n, ch) ==
    /\ Len(ch) = CeilDiv(n)
    /\ \A i \in 1..Len(ch) :
          Len(ch[i].data) =
             IF i < Len(ch) THEN Capacity
             ELSE IF n % Capacity = 0 THEN Capacity ELSE n % Capacity
    /\ Len(Flat(ch)) = n
    /\ \A i \in 1..Len(Flat(ch)) : Flat(ch)[i] = <<t, k, i>>

(* C2: for a text longer than the buffer, the chunks transmitted for it     *)
(* are all of size Capacity except possibly the last, and their             *)
(* concatenation is the text.                                               *)
C2_ChunksAreTheText ==
    [][\A t \in Producers :
          (Returns(t) /\ CurLen(t) > Capacity) =>
             ChunksAsSpecified(t, CurCall(t), CurLen(t), ChunksBy(t, sent'))]_vars

(* C3: a text longer than the buffer (and shorter than 2^16), appended to   *)
(* an empty buffer, makes exactly ceil(length / Capacity) TransmitAsync     *)
(* calls and leaves the buffer empty.                                       *)
C3_TransmitCount ==
    [][\A t \in Producers :
          (/\ Returns(t)
           /\ CurLen(t) > Capacity
           /\ CurLen(t) < UINT16
           /\ pre[t].fill = 0) =>
             (/\ Len(MadeBy(t, sent')) = CeilDiv(CurLen(t))
              /\ fill' = 0)]_vars

----------------------------------------------------------------------------
(* Appends that fit *)

RECURSIVE EpochLen(_)
EpochLen(e) ==
    IF e = <<>> THEN 0 ELSE TextLen(e[1][1], e[1][2]) + EpochLen(Tail(e))

RECURSIVE EpochBytes(_)
EpochBytes(e) ==
    IF e = <<>> THEN <<>>
    ELSE TextBytes(e[1][1], e[1][2], 0, TextLen(e[1][1], e[1][2]))
            \o EpochBytes(Tail(e))

\* No Message call is between its check of the room left and its return.
NoneCopying == \A t \in Tasks : pc[t] \notin {"chunk", "copy"}

(* C4: starting from an empty buffer, after appends whose combined length   *)
(* is at most Capacity, with no flush by the transmitter task in between,   *)
(* nothing has been transmitted and the buffer holds the texts in call      *)
(* order, fill being their combined length.                                 *)
C4_BufferIsConcat ==
    (NoneCopying /\ EpochLen(epoch) <= Capacity) =>
        /\ Len(sent) = epochSent
        /\ fill = EpochLen(epoch)
        /\ Payload(buffer, fill) = EpochBytes(epoch)

C4_Witness ==
    /\ NoneCopying
    /\ Len(epoch) >= 2
    /\ EpochLen(epoch) <= Capacity
    /\ fill = EpochLen(epoch)
    /\ epoch[1][1] # epoch[2][1]

(* C5: a text that fits the buffer but not the room left makes exactly one  *)
(* TransmitAsync call, of the bytes buffered before, and is then alone in   *)
(* the buffer; a text that fits the room left makes no call.                *)
C5_FlushBeforeCopy ==
    [][\A t \in Producers :
          (Returns(t) /\ CurLen(t) <= Capacity) =>
             IF pre[t].fill + CurLen(t) > Capacity
             THEN /\ Len(MadeBy(t, sent')) = 1
                  /\ sent'[Len(sent')].data = pre[t].buf
                  /\ fill' = CurLen(t)
                  /\ Payload(buffer', fill') = TextBytes(t, CurCall(t), 0, CurLen(t))
             ELSE /\ MadeBy(t, sent') = <<>>
                  /\ fill' = pre[t].fill + CurLen(t)]_vars

C5_Witness ==
    /\ NoneCopying
    /\ Len(sent) > 0
    /\ sent[Len(sent)].by \in Producers
    /\ sent[Len(sent)].src = "buffer"
    /\ Len(sent[Len(sent)].data) > 0
    /\ fill > 0
    /\ fill <= Capacity
    /\ buffer[1][1] = sent[Len(sent)].by

----------------------------------------------------------------------------
(* Calls without a usable channel *)

\* The step is task t calling Message.
Calling(t) == calls'[t] # calls[t]

(* C6: a Message call made while no channel is bound, or while the bound    *)
(* channel reports not connected, makes no TransmitAsync call, leaves the   *)
(* buffer and the fill position as they are and does not take the           *)
(* semaphore: it returns at once.                                           *)
C6_SilentNoOp ==
    [][\A t \in Producers :
          (Calling(t) /\ (com = NoRef \/ ~connected)) =>
             /\ pc'[t] = "idle"
             /\ UNCHANGED <<sent, buffer, fill, avail, wait>>]_vars

\* The bytes of the k-th text of task t are neither sent nor buffered.
Dropped(t, k) ==
    \A i \in 1..Len(Stream) :
        Len(Stream[i]) # 3 \/ Stream[i][1] # t \/ Stream[i][2] # k

C6_Witness ==
    /\ \A t \in Producers : pc[t] = "idle"
    /\ com # NoRef
    /\ ~connected
    /\ fill > 0
    /\ \E t \in Producers : Len(calls[t]) > 0 /\ Dropped(t, Len(calls[t]))

----------------------------------------------------------------------------
(* The fill position and the semaphore, under any use of AssignDebugCOM *)

(* C7: in every reachable state, whatever the interleaving of               *)
(* AssignDebugCOM, Message calls and the transmitter task, the fill          *)
(* position is between 0 and Capacity.                                      *)
C7_FillWithinCapacity == 0 <= fill /\ fill <= Capacity

\* The tasks between a take and the give that follows it.
InMessage == {t \in Tasks : pc[t] \in {"locked", "chunk", "copy"}}
InFlush == {f \in Flushers : fpc[f] = "locked"}

(* C10: access to the buffer and the fill position is serialized by one     *)
(* lock: in every reachable state at most one task is between taking the    *)
(* semaphore and giving it back.                                            *)
C10_OneTaskAtATime == Cardinality(InMessage) + Cardinality(InFlush) <= 1

----------------------------------------------------------------------------
(* The transmitter task drains the buffer *)

\* No Message call is in progress.
Quiet == \A t \in Producers : pc[t] = "idle"

\* The last TransmitAsync call was the transmitter task's, of the bytes the
\* buffer held, and the buffer is empty.
Flushed ==
    /\ fill = 0
    /\ Len(sent) > 0
    /\ sent[Len(sent)].by = "flush"
    /\ Len(sent[Len(sent)].data) > 0
    /\ sent[Len(sent)].data = Payload(buffer, Len(sent[Len(sent)].data))

(* C8: after a successful AssignDebugCOM, when tasks that can run do run:   *)
(* whenever bytes are buffered and no Message call follows, the transmitter *)
(* task eventually sends exactly the buffered bytes and empties the buffer. *)
C8_EventuallyFlushed == (fill > 0 /\ Quiet) ~> (Flushed \/ ~Quiet)

C8_Witness == Flushed /\ Quiet /\ Len(sent) = 1

----------------------------------------------------------------------------
(* Debug::Error *)

(* C9: a task that has entered Error never returns from it and keeps        *)
(* running its loop of Message calls and delays, and meanwhile the system   *)
(* keeps running: the other tasks are not stopped.                          *)
C9_ErrorLoopsForever ==
    \A t \in Tasks : InError(t) => (pc[t] # "idle" /\ ~halted)

----------------------------------------------------------------------------
(* What AssignDebugCOM creates and resets *)

(* C11: the semaphore and the transmitter task are created on the first     *)
(* successful AssignDebugCOM only: whatever calls have been made, once one  *)
(* has succeeded there is exactly one semaphore and one transmitter task.   *)
C11_OneLockOneTask == (nsem > 0 \/ nflush > 0) => (nsem = 1 /\ nflush = 1)

\* The step is a call of AssignDebugCOM (its lines 50-61).
Binding == nbinds' # nbinds

(* C12: a call of AssignDebugCOM, with a present reference or with none,    *)
(* stores the reference, sets the fill position to 0 and zeroes the whole   *)
(* buffer, and makes no TransmitAsync call for the bytes it discards.       *)
C12_BindResets ==
    [][Binding =>
          /\ com' \in {NoRef, Lspc}
          /\ fill' = 0
          /\ buffer' = MemSetZero
          /\ sent' = sent]_vars

----------------------------------------------------------------------------
(* The channel and the semaphore at the time they are used *)

\* The step makes a TransmitAsync call.
Transmitting == sent' # sent

(* C17: every TransmitAsync call, of Message or of the transmitter task, is *)
(* made on a present channel reference, also after AssignDebugCOM was       *)
(* called without one while a transmitter task runs.                        *)
C17_TransmitOnPresentChannel == [][Transmitting => com # NoRef]_vars

(* C18: whenever Message or the transmitter task is about to take the       *)
(* semaphore, the semaphore has been created: mutex_ is not NULL.           *)
C18_LockExistsWhenTaken ==
    /\ \A t \in Tasks : pc[t] = "take" => mutex_ # NoSem
    /\ \A f \in Flushers : fpc[f] = "sleep" => mutex_ # NoSem

(* C19: a TransmitAsync call is made only while the channel reports         *)
(* connected, whether Message or the transmitter task makes it.             *)
C19_TransmitOnlyConnected == [][Transmitting => connected]_vars

----------------------------------------------------------------------------
(* A failed xSemaphoreCreateBinary *)

\* The step is the one in which xSemaphoreCreateBinary returns NULL.
CreationFails == pc[Binder] = "create" /\ pc'[Binder] # "create" /\ mutex_' = NoSem

(* C13: when the creation of the semaphore fails in AssignDebugCOM, the     *)
(* caller enters Error and the binding goes no further: no transmitter task *)
(* is created and no semaphore is given; and as the caller never leaves     *)
(* Error, none is created or given later either.                            *)
C13_FailedCreationAborts ==
    [][/\ CreationFails =>
            /\ InError(Binder)'
            /\ UNCHANGED <<nflush, fpc, nsem, avail>>
       /\ (mutex_ = NoSem /\ InError(Binder)) =>
            /\ InError(Binder)'
            /\ mutex_' = NoSem
            /\ UNCHANGED <<nflush, nsem>>
            /\ avail' \subseteq avail]_vars

C13_Witness ==
    /\ nbinds = 1
    /\ com = Lspc
    /\ mutex_ = NoSem
    /\ InError(Binder)
    /\ errLoops[Binder] = MaxErrLoops
    /\ nflush = 0
    /\ avail = {}
    /\ ~halted

----------------------------------------------------------------------------
(* Every take is followed by a give of the same semaphore *)

\* No task is between xSemaphoreTake and the xSemaphoreGive that follows.
NoneInside == InMessage = {} /\ InFlush = {}

(* C16: every Message call and every round of the transmitter task that     *)
(* takes the semaphore gives it back before it returns or sleeps: whenever  *)
(* no task is between take and give every semaphore created is free, and a  *)
(* task blocks on a semaphore only while that semaphore is free or some     *)
(* task is between take and give, so that no task blocks forever.           *)
C16_LockAlwaysReleased ==
    /\ NoneInside => \A s \in 1..nsem : s \in avail
    /\ \A t \in Tasks :
          pc[t] = "wait" => (wait[t] \in avail \/ ~NoneInside)
    /\ \A f \in Flushers :
          fpc[f] = "wait" => (fwait[f] \in avail \/ ~NoneInside)

----------------------------------------------------------------------------
(* A TransmitAsync call that fails *)

\* The program bytes handed to TransmitAsync so far.
SentBytes(log) == SelectSeq(Flat(log), LAMBDA b : Len(b) = 3)

\* No byte of a text was handed to TransmitAsync twice.
NoneResent(log) ==
    \A i, j \in 1..Len(SentBytes(log)) :
        SentBytes(log)[i] = SentBytes(log)[j] => i = j

\* The last TransmitAsync call.
LastSent(log) == log[Len(log)]

(* C14: when a TransmitAsync call made by Message or by the transmitter     *)
(* task returns false, the step goes on as after a success: after a call on *)
(* the buffer the fill position is 0, after a call on a chunk the chunk     *)
(* pointer has advanced by the chunk's size and the length left has gone    *)
(* down by it, and no byte handed to TransmitAsync is handed to it again.   *)
C14_FailureAbsorbed ==
    [][(Transmitting /\ ~txOk') =>
          /\ Len(sent') = Len(sent) + 1
          /\ LastSent(sent').src = "buffer" => fill' = 0
          /\ LastSent(sent').src = "text" =>
                LET t == LastSent(sent').by
                    n == Len(LastSent(sent').data)
                IN  /\ msgPtr'[t] = msgPtr[t] + n
                    /\ stringLength'[t] = stringLength[t] - n
          /\ NoneResent(sent')]_vars

C14_Witness ==
    /\ ~txOk
    /\ Len(sent) = 1
    /\ sent[1].src = "buffer"
    /\ Len(sent[1].data) > 0
    /\ fill > 0
    /\ NoneCopying
    /\ Len(epoch) = 1

----------------------------------------------------------------------------
(* The debug pin *)

(* C15: once SetDebugPin has stored a pin, no later SetDebugPin call        *)
(* changes debugPulsePin_; and while no pin is stored, Pulse and Toggle     *)
(* operate no pin. Every operation made is made on the stored pin.          *)
C15_PinBoundOnce ==
    [][/\ debugPulsePin_ # NoPin => debugPulsePin_' = debugPulsePin_
       /\ debugPulsePin_ = NoPin => pinLog' = pinLog
       /\ pinLog' # pinLog =>
             /\ Len(pinLog') = Len(pinLog) + 1
             /\ pinLog'[Len(pinLog')][1] = debugPulsePin_]_vars

C15_Witness ==
    /\ pinCalls = <<<<"pulse", NoPin>>, <<"set", "pinA">>, <<"set", "pinB">>,
                    <<"toggle", "pinA">>>>
    /\ debugPulsePin_ = "pinA"
    /\ pinLog = <<PinOp("pinA", "Toggle")>>

----------------------------------------------------------------------------
(* The two tagged overloads with three arguments *)

(* C20: called with equal arguments, the overload taking C strings and the  *)
(* overload taking std::string make the same calls of the plain Message,   *)
(* in the same order: type, "[", functionName, "] ", msg, "\n".             *)
C20_TaggedOverloadsAgree ==
    (tagLog["cstr"] # <<>> /\ tagLog["string"] # <<>>) =>
        /\ tagLog["string"] = tagLog["cstr"]
        /\ tagLog["cstr"] = <<Given(tagArgs[1]), <<"[">>, Given(tagArgs[2]),
                              <<"]", " ">>, Given(tagArgs[3]), <<"LF">>>>

====
